---- MODULE Spec2Model ----
(***************************************************************************)
(* Model of the media-studio image compositing engine:                     *)
(*   backend/services/image_processor.py  (smart_crop, ImageProcessor)     *)
(*   backend/services/logo_handler.py     (watermark preparation, logos)   *)
(*   backend/api/media_studio.py          (the /generate handler)          *)
(*                                                                         *)
(* Ten specifications share the module:                                    *)
(*   Spec        the /generate request handler, stage by stage             *)
(*   SpecCrop    smart_crop applied to bounded source and target sizes     *)
(*   SpecLogo    the pixel-level logo path (background removal, opacity,   *)
(*               alpha paste) on one-row images                            *)
(*   SpecPlace   the corner placement of a logo on a canvas                *)
(*   SpecOpacity the opacity scaling of one alpha sample                   *)
(*   SpecText    the layout of add_text_overlay (panel, title, chip)       *)
(*   SpecResize  resize_logo applied to bounded logos and sizes            *)
(*   SpecDelete  one delete_asset request on a small file system           *)
(*   SpecConc    two /generate runs interleaved at their awaits            *)
(*   SpecCommand parse_command answering a client's size commands          *)
(* Each specification leaves the other specifications' variables at their  *)
(* idle values.                                                            *)
(***************************************************************************)
EXTENDS Integers, Sequences, FiniteSets, TLC

VARIABLES
    crop,       \* SpecCrop: one call of smart_crop (arguments, crop box, outcome)
    lg,         \* SpecLogo: one logo being prepared and pasted
    place,      \* SpecPlace: one logo placement
    opq,        \* SpecOpacity: one alpha sample being scaled
    pc,         \* Spec: position of the /generate handler
    req,        \* Spec: the form fields of the request being served
    idx,        \* Spec: index in format_list of the format being processed
    canvas,     \* Spec: the working image of generate_asset (img)
    results,    \* Spec: the handler's results list
    response,   \* Spec: the JSON response last returned
    files,      \* Spec: temporary files present under /tmp
    served,     \* Spec: number of requests answered so far
    txt,        \* SpecText: one call of add_text_overlay (measures, layout)
    rz,         \* SpecResize: one call of resize_logo
    store,      \* SpecDelete: the output directory and one delete request
    handlers,   \* SpecConc: the positions and locals of two /generate runs
    disk,       \* SpecConc: the files under /tmp, each with its writer
    cmd         \* SpecCommand: a client's options and one parse_command call

cropVars == <<crop>>
logoVars == <<lg>>
placeVars == <<place>>
opqVars == <<opq>>
genVars == <<pc, req, idx, canvas, results, response, files, served>>
textVars == <<txt>>
resizeVars == <<rz>>
deleteVars == <<store>>
concVars == <<handlers, disk>>
commandVars == <<cmd>>
vars == <<crop, lg, place, opq, pc, req, idx, canvas, results, response, files, served,
          txt, rz, store, handlers, disk, cmd>>

NoValue == [kind |-> "none"]

\* ------------------------------------------------------------------ bounds
MaxDim == 6          \* source and target sizes 0..MaxDim (plus ExtraDims)
ExtraDims == {9, 11, 15}

Dims == (0..MaxDim) \cup ExtraDims

\* ------------------------------------------------- Python float arithmetic
\* The code computes the crop sizes in double precision: int(a / (tw / th))
\* and int(a * (tw / th)).  For the sizes of this model the double result is
\* the exact floor, except for the triples <<a, tw, th>> below, where the
\* double quotient (product) falls just under an integer and int() yields
\* one less.  (Tabulated for every a, tw, th in 0..18; the catalog targets
\* have no such triple for a up to 2100.)
QuotDefects ==
    { <<9, 9, 7>>, <<9, 9, 14>>, <<9, 18, 14>>, <<18, 9, 7>>, <<18, 9, 14>>,
      <<18, 18, 7>>, <<18, 18, 14>> }

ProdDefects == { <<11, 15, 11>>, <<13, 15, 13>> }

\* int(a / (tw / th))
IntOfQuot(a, tw, th) ==
    ((a * th) \div tw) - (IF <<a, tw, th>> \in QuotDefects THEN 1 ELSE 0)

\* int(a * (tw / th))
IntOfProd(a, tw, th) ==
    ((a * tw) \div th) - (IF <<a, tw, th>> \in ProdDefects THEN 1 ELSE 0)

\* ---------------------------------------------------------------- smart_crop
\* target_ratio > img_ratio, both correctly rounded quotients of small ints
TargetWider(w, h, tw, th) == tw * h > w * th

\* a crop box that starts at the top-left corner of the source
CropBox_TopLeft(w, h, tw, th) ==
    IF TargetWider(w, h, tw, th)
    THEN <<0, 0, w, IntOfQuot(w, tw, th)>>
    ELSE <<0, 0, IntOfProd(h, tw, th), h>>

\* the branch of lines 52-63 that smart_crop takes
CropBranch(w, h, tw, th) ==
    IF TargetWider(w, h, tw, th) THEN "height-limited" ELSE "width-limited"

\* the box (left, upper, right, lower) handed to img.crop
CropBox(w, h, tw, th) ==
    IF TargetWider(w, h, tw, th)
    THEN LET new_height == IntOfQuot(w, tw, th)
             offset == (h - new_height) \div 2
         IN  <<0, offset, w, offset + new_height>>
    ELSE LET new_width == IntOfProd(h, tw, th)
             offset == (w - new_width) \div 2
         IN  <<offset, 0, offset + new_width, h>>

BoxWidth(box) == box[3] - box[1]
BoxHeight(box) == box[4] - box[2]

\* Image.resize((tw, th)) of an image of size (cw, ch): the outcomes it can
\* have.  Pillow rejects a target below 1 ("height and width must be > 0")
\* and resamples any source region, an empty one included (its box check
\* refuses only a negative extent), into an image of the target size.
ResizeOutcomes(cw, ch, tw, th) ==
    IF tw < 1 \/ th < 1 THEN {"ValueError"} ELSE {"image"}

\* a resize that hands back (height, width)
ResizedSize_Swapped(tw, th) == <<th, tw>>

\* the size of the image Image.resize returns
ResizedSize(tw, th) == <<tw, th>>

\* the outcomes of smart_crop(img, tw, th) for an image of size (w, h)
SmartCropOutcomes(w, h, tw, th) ==
    IF h = 0 \/ th = 0 THEN {"ZeroDivisionError"}
    ELSE LET box == CropBox(w, h, tw, th)
         IN  IF box[3] < box[1] \/ box[4] < box[2] THEN {"ValueError"}
             ELSE ResizeOutcomes(BoxWidth(box), BoxHeight(box), tw, th)

CropIdle == [pc |-> "off"]

CropInit ==
    \E w \in Dims, h \in Dims, tw \in Dims, th \in Dims, m \in {"RGB", "RGBA"} :
        crop = [pc |-> "call", w |-> w, h |-> h, mode |-> m, tw |-> tw, th |-> th]

\* one call of smart_crop, up to its return or its exception
SmartCrop ==
    /\ crop.pc = "call"
    /\ \E out \in SmartCropOutcomes(crop.w, crop.h, crop.tw, crop.th) :
         IF out = "image"
         THEN crop' = [crop EXCEPT !.pc = "returned"]
                      @@ [branch |-> CropBranch(crop.w, crop.h, crop.tw, crop.th),
                          box |-> CropBox(crop.w, crop.h, crop.tw, crop.th),
                          out |-> [w |-> ResizedSize(crop.tw, crop.th)[1],
                                   h |-> ResizedSize(crop.tw, crop.th)[2],
                                   mode |-> "RGB"]]
         ELSE crop' = [crop EXCEPT !.pc = "raised"] @@ [error |-> out]
    /\ UNCHANGED <<lg, place, opq, pc, req, idx, canvas, results, response, files, served,
                   txt, rz, store, handlers, disk, cmd>>

\* ------------------------------------------------------------ /generate
MaxFormats == 2      \* entries in the formats field
MaxRequests == 2     \* requests served in one run of the model

\* a catalog that lacks the portrait format
CatalogLabels_NoPortrait == {"16:9", "1:1", "9:16"}

\* "16:9", "1:1", "9:16", "4:5": the labels the loop accepts
CatalogLabels == {"16:9", "1:1", "9:16", "4:5"}

\* labels a request can carry: the catalog and one that is not in it
RequestLabels == {"16:9", "1:1", "9:16", "4:5", "bogus"}

\* the dimensions dict of the handler
Dimensions(label) ==
    CASE label = "16:9" -> <<1200, 675>>
      [] label = "1:1" -> <<1080, 1080>>
      [] label = "9:16" -> <<1080, 1920>>
      [] label = "4:5" -> <<1080, 1350>>
      [] OTHER -> <<1080, 1080>>

\* the platform_names dict of the handler
PlatformName(label) ==
    CASE label = "16:9" -> "Facebook Feed"
      [] label = "1:1" -> "Instagram Square"
      [] label = "9:16" -> "Instagram Story"
      [] label = "4:5" -> "Facebook/Instagram Portrait"
      [] OTHER -> "Social Media"

\* uploads: absent, bytes that decode to an image of a size, or other bytes
NoUpload == [kind |-> "none"]
BadUpload == [kind |-> "invalid"]
ImageUpload(w, h) == [kind |-> "image", w |-> w, h |-> h]

SourceUploads == {NoUpload, BadUpload, ImageUpload(1200, 800), ImageUpload(2000, 1)}
LogoUploads == {NoUpload, BadUpload, ImageUpload(100, 100), ImageUpload(200, 1)}
LogoSizes == {90}

FormatLists ==
    UNION { [1..n -> RequestLabels] : n \in 1..MaxFormats }

Requests ==
    [formats : FormatLists, image : SourceUploads, logo_enabled : BOOLEAN,
     logo_file : LogoUploads, logo_size : LogoSizes,
     title : BOOLEAN, cta : BOOLEAN]

\* logo_path after lines 116-120: set only when the logo is enabled and sent
LogoPath(r) == IF r.logo_enabled /\ r.logo_file.kind # "none" THEN "logo" ELSE "none"

\* the image the handler finds in input_path: the upload's bytes, or the
\* 1200x1200 placeholder it draws when no image was sent
InputFile(r) == IF r.image.kind = "none" THEN ImageUpload(1200, 1200) ELSE r.image

\* img.convert(mode): same size, the mode asked for
Convert(img, mode) == [img EXCEPT !.mode = mode]

\* a new height computed from the inverse aspect ratio
ResizeLogoHeight_Inverse(lw, lh, size) == IntOfProd(size, lw, lh)

\* ImageProcessor.resize_logo: the outcomes and the size of the result
ResizeLogoHeight(lw, lh, size) == IntOfQuot(size, lw, lh)

ResizeLogoOutcomes(lw, lh, size) ==
    ResizeOutcomes(lw, lh, size, ResizeLogoHeight(lw, lh, size))

\* An image carries, besides its size and mode, what has been drawn on it,
\* from the bottom layer to the top one.
\* base.paste(logo, pos, logo): the logo goes over what the base shows
Paste(img, layer) == [img EXCEPT !.layers = Append(@, layer)]

\* add_logo without the final convert("RGB")
ImageProcessorAddLogo_NoFlatten(img) == Paste(Convert(img, "RGBA"), "logo")

\* ImageProcessor.add_logo: convert to RGBA, paste the logo through its own
\* alpha (the paste clips to the base), convert back to RGB
ImageProcessorAddLogo(img) == Convert(Paste(Convert(img, "RGBA"), "logo"), "RGB")

\* Image.alpha_composite(a, b): both RGBA and of one size, the result RGBA
\* shows b over a
AlphaComposite(a, b) == [a EXCEPT !.mode = "RGBA", !.layers = @ \o b.layers]

\* the overlay of add_text_overlay: transparent, of the image's size, with
\* the panel, the title and the chip drawn on it
TextOverlay(img) == [w |-> img.w, h |-> img.h, mode |-> "RGBA", layers |-> <<"text">>]

\* an overlay composited with the arguments of alpha_composite exchanged
AddTextOverlay_Beneath(img) ==
    Convert(AlphaComposite(TextOverlay(img), Convert(img, "RGBA")), "RGB")

\* ImageProcessor.add_text_overlay: a copy, an overlay of its size, the
\* composite converted to RGB
AddTextOverlay(img) ==
    Convert(AlphaComposite(Convert(img, "RGBA"), TextOverlay(img)), "RGB")

\* logo_handler.add_logo, the watermark it stamps: the image at logo_path
\* (the default asset path when none is given; "stream" stands for a
\* file-like object) if it is there, the text "KESHET" at opacity 0.35 if
\* not.  generate_asset does not call it.
LogoHandlerAddLogo(logo_path, exists) ==
    LET path == IF logo_path = "none" THEN "static/logo/mako_logo.png" ELSE logo_path
    IN  IF path = "stream" \/ exists[path]
        THEN [routine |-> "add_image_logo", logo |-> path, opacity |-> 85]
        ELSE [routine |-> "add_transparent_logo", logo |-> "KESHET", opacity |-> 35]

\* the largest side the JPEG encoder writes
JpegMaxSide == 65500

\* img.save(output_path, "JPEG"): the outcomes.  A mode with alpha cannot be
\* written; the write to /tmp can fail (OSError) whatever the image is.
SaveOutcomes(img) ==
    IF img.mode # "RGB" \/ img.w > JpegMaxSide \/ img.h > JpegMaxSide
    THEN {"OSError"}
    ELSE {"saved", "OSError"}

\* the size a decoder reads back from the saved file (16-bit header fields)
DecodedSize(img) == <<img.w % 65536, img.h % 65536>>

\* results.append({...}) of lines 171-178 for the format label
Asset(label, img) ==
    [format |-> label, platform |-> PlatformName(label),
     width |-> Dimensions(label)[1], height |-> Dimensions(label)[2],
     decoded |-> DecodedSize(img), mode |-> img.mode, layers |-> img.layers]

\* a failure body that still carries the assets built so far
FailureResponse_Partial(e) ==
    [status |-> 500, success |-> FALSE, error |-> e, assets |-> results]

\* the JSON bodies of lines 190-195 and 200-206
SuccessResponse(res) ==
    [status |-> 200, success |-> TRUE, assets |-> res, count |-> Len(res)]

FailureResponse(e) == [status |-> 500, success |-> FALSE, error |-> e]

GenIdle ==
    /\ pc = "idle"
    /\ req = NoValue
    /\ idx = 0
    /\ canvas = NoValue
    /\ results = <<>>
    /\ response = NoValue
    /\ files = {}
    /\ served = 0

GenInit == GenIdle

\* the name of a temporary file of the request being served: its kind and
\* the request's timestamp (here the request's number)
TmpFile(kind) == <<kind, served + 1>>

Label == req.formats[idx]

\* lines 91-126: parse the formats, write the input file and the logo file
Receive ==
    /\ pc = "idle"
    /\ served < MaxRequests
    /\ \E r \in Requests :
         /\ req' = r
         /\ files' = files \cup {TmpFile("input")}
                       \cup (IF LogoPath(r) = "logo" THEN {TmpFile("logo")} ELSE {})
    /\ idx' = 1
    /\ results' = <<>>
    /\ canvas' = NoValue
    /\ response' = NoValue
    /\ pc' = "loop"
    /\ UNCHANGED <<served, crop, lg, place, opq,
                   txt, rz, store, handlers, disk, cmd>>

\* lines 129-131: a label outside the catalog is passed over
SkipFormat ==
    /\ pc = "loop"
    /\ idx <= Len(req.formats)
    /\ Label \notin CatalogLabels
    /\ idx' = idx + 1
    /\ UNCHANGED <<pc, req, canvas, results, response, files, served, crop, lg, place, opq,
                   txt, rz, store, handlers, disk, cmd>>

\* lines 133-153: a catalog label enters generate_asset
EnterFormat ==
    /\ pc = "loop"
    /\ idx <= Len(req.formats)
    /\ Label \in CatalogLabels
    /\ pc' = "crop"
    /\ UNCHANGED <<req, idx, canvas, results, response, files, served, crop, lg, place, opq,
                   txt, rz, store, handlers, disk, cmd>>

\* the outcomes of lines 108-109: open the input file, convert, smart_crop
CropStageOutcomes ==
    IF InputFile(req).kind # "image" THEN {"UnidentifiedImageError"}
    ELSE SmartCropOutcomes(InputFile(req).w, InputFile(req).h,
                           Dimensions(Label)[1], Dimensions(Label)[2])

\* the outcomes of lines 112-120: open the logo, resize_logo, add_logo
LogoStageOutcomes ==
    IF LogoPath(req) # "logo" THEN {"image"}
    ELSE IF req.logo_file.kind # "image" THEN {"UnidentifiedImageError"}
    ELSE ResizeLogoOutcomes(req.logo_file.w, req.logo_file.h, req.logo_size)

\* the image generate_asset holds after the crop stage
CroppedCanvas ==
    [w |-> ResizedSize(Dimensions(Label)[1], Dimensions(Label)[2])[1],
     h |-> ResizedSize(Dimensions(Label)[1], Dimensions(Label)[2])[2],
     mode |-> "RGB", layers |-> <<"crop">>]

\* generate_asset lines 108-109
CropStage ==
    /\ pc = "crop"
    /\ "image" \in CropStageOutcomes
    /\ canvas' = CroppedCanvas
    /\ pc' = "logo"
    /\ UNCHANGED <<req, idx, results, response, files, served, crop, lg, place, opq,
                   txt, rz, store, handlers, disk, cmd>>

\* generate_asset lines 112-120
LogoStage ==
    /\ pc = "logo"
    /\ "image" \in LogoStageOutcomes
    /\ canvas' = IF LogoPath(req) = "logo" THEN ImageProcessorAddLogo(canvas) ELSE canvas
    /\ pc' = "text"
    /\ UNCHANGED <<req, idx, results, response, files, served, crop, lg, place, opq,
                   txt, rz, store, handlers, disk, cmd>>

\* generate_asset lines 123-130
TextStage ==
    /\ pc = "text"
    /\ canvas' = IF req.title \/ req.cta THEN AddTextOverlay(canvas) ELSE canvas
    /\ pc' = "save"
    /\ UNCHANGED <<req, idx, results, response, files, served, crop, lg, place, opq,
                   txt, rz, store, handlers, disk, cmd>>

\* generate_asset lines 133-134
SaveStage ==
    /\ pc = "save"
    /\ "saved" \in SaveOutcomes(canvas)
    /\ files' = files \cup {TmpFile("output")}
    /\ pc' = "encode"
    /\ UNCHANGED <<req, idx, canvas, results, response, served, crop, lg, place, opq,
                   txt, rz, store, handlers, disk, cmd>>

\* lines 167-182: read the file back, append the asset, remove the file
AppendAsset ==
    /\ pc = "encode"
    /\ results' = Append(results, Asset(Label, canvas))
    /\ files' = files \ {TmpFile("output")}
    /\ idx' = idx + 1
    /\ canvas' = NoValue
    /\ pc' = "loop"
    /\ UNCHANGED <<req, response, served, crop, lg, place, opq,
                   txt, rz, store, handlers, disk, cmd>>

\* the exceptions the stage at pc can raise
StageErrors ==
    CASE pc = "crop" -> CropStageOutcomes \ {"image"}
      [] pc = "logo" -> LogoStageOutcomes \ {"image"}
      [] pc = "save" -> SaveOutcomes(canvas) \ {"saved"}
      [] OTHER -> {}

\* lines 197-206: any exception ends the request with the 500 body
Fail ==
    /\ \E e \in StageErrors : response' = FailureResponse(e)
    /\ pc' = "responded"
    /\ UNCHANGED <<req, idx, canvas, results, files, served, crop, lg, place, opq,
                   txt, rz, store, handlers, disk, cmd>>

\* lines 184-195: the loop is over: remove the inputs, return the assets
Finish ==
    /\ pc = "loop"
    /\ idx > Len(req.formats)
    /\ files' = files \ {TmpFile("input"), TmpFile("logo")}
    /\ response' = SuccessResponse(results)
    /\ pc' = "responded"
    /\ UNCHANGED <<req, idx, canvas, results, served, crop, lg, place, opq,
                   txt, rz, store, handlers, disk, cmd>>

\* the response is sent and the handler's locals are gone; the process
\* waits for the next request
Return ==
    /\ pc = "responded"
    /\ pc' = "idle"
    /\ served' = served + 1
    /\ req' = NoValue
    /\ idx' = 0
    /\ canvas' = NoValue
    /\ results' = <<>>
    /\ response' = NoValue
    /\ UNCHANGED <<files, crop, lg, place, opq,
                   txt, rz, store, handlers, disk, cmd>>

GenNext ==
    \/ Receive
    \/ SkipFormat
    \/ EnterFormat
    \/ CropStage
    \/ LogoStage
    \/ TextStage
    \/ SaveStage
    \/ AppendAsset
    \/ Fail
    \/ Finish
    \/ Return

\* -------------------------------------------------------- logo placement
MaxLogoSide == 24    \* logo widths and heights 1..MaxLogoSide

\* the canvas sides of SpecPlace
CanvasSides == {90, 100}

\* "top-right", "top-left", "bottom-right", "bottom-left", and two values
\* that are none of them
Corners == {"top-right", "top-left", "bottom-right", "bottom-left"}
CornerValues == Corners \cup {"center", "Top-Right"}

\* padding = 40 of add_logo, add_image_logo and add_transparent_logo
Padding == 40

\* a positions table whose right-hand entries forget the logo width
CornerPosition_NoLogoWidth(w, h, lw, lh, position) ==
    CASE position = "top-left" -> <<Padding, Padding>>
      [] position = "bottom-right" -> <<w - Padding, h - lh - Padding>>
      [] position = "bottom-left" -> <<Padding, h - lh - Padding>>
      [] OTHER -> <<w - Padding, Padding>>

\* a positions table whose default is the top-left entry
CornerPosition_DefaultTopLeft(w, h, lw, lh, position) ==
    CASE position = "top-right" -> <<w - lw - Padding, Padding>>
      [] position = "bottom-right" -> <<w - lw - Padding, h - lh - Padding>>
      [] position = "bottom-left" -> <<Padding, h - lh - Padding>>
      [] OTHER -> <<Padding, Padding>>

\* positions.get(position, positions["top-right"]) of the three routines:
\* the top-left corner of the pasted rectangle
CornerPosition(w, h, lw, lh, position) ==
    CASE position = "top-left" -> <<Padding, Padding>>
      [] position = "bottom-right" -> <<w - lw - Padding, h - lh - Padding>>
      [] position = "bottom-left" -> <<Padding, h - lh - Padding>>
      [] OTHER -> <<w - lw - Padding, Padding>>

\* ImageProcessor.add_logo lines 77-87
ImageProcessorLogoPos(w, h, lw, lh, position) == CornerPosition(w, h, lw, lh, position)

\* add_image_logo lines 196-206
AddImageLogoPos(w, h, lw, lh, position) == CornerPosition(w, h, lw, lh, position)

\* add_transparent_logo lines 124-138, for a text measured (lw, lh)
AddTransparentLogoPos(w, h, lw, lh, position) == CornerPosition(w, h, lw, lh, position)

PlaceRoutines == {"ImageProcessor.add_logo", "add_image_logo", "add_transparent_logo"}

PlaceInit ==
    \E w \in CanvasSides, h \in CanvasSides, lw \in 1..MaxLogoSide,
       lh \in 1..MaxLogoSide, c \in CornerValues, r \in PlaceRoutines :
        place = [pc |-> "call", routine |-> r, w |-> w, h |-> h,
                 lw |-> lw, lh |-> lh, position |-> c]

\* ImageProcessor.add_logo computes pos and pastes the logo there
PlaceProcessorLogo ==
    /\ place.pc = "call"
    /\ place.routine = "ImageProcessor.add_logo"
    /\ place' = [place EXCEPT !.pc = "pasted"]
                @@ [pos |-> ImageProcessorLogoPos(place.w, place.h, place.lw,
                                                  place.lh, place.position)]
    /\ UNCHANGED <<crop, lg, opq, pc, req, idx, canvas, results, response, files, served,
                   txt, rz, store, handlers, disk, cmd>>

\* add_image_logo computes pos and pastes the logo there
PlaceImageLogo ==
    /\ place.pc = "call"
    /\ place.routine = "add_image_logo"
    /\ place' = [place EXCEPT !.pc = "pasted"]
                @@ [pos |-> AddImageLogoPos(place.w, place.h, place.lw,
                                            place.lh, place.position)]
    /\ UNCHANGED <<crop, lg, opq, pc, req, idx, canvas, results, response, files, served,
                   txt, rz, store, handlers, disk, cmd>>

\* add_transparent_logo computes pos and draws the text there
PlaceTextLogo ==
    /\ place.pc = "call"
    /\ place.routine = "add_transparent_logo"
    /\ place' = [place EXCEPT !.pc = "pasted"]
                @@ [pos |-> AddTransparentLogoPos(place.w, place.h, place.lw,
                                                  place.lh, place.position)]
    /\ UNCHANGED <<crop, lg, opq, pc, req, idx, canvas, results, response, files, served,
                   txt, rz, store, handlers, disk, cmd>>

\* -------------------------------------------------------- opacity scaling
\* the largest value of an 8-bit channel
MaxChannel == 255

\* opacity factors, in hundredths: 0.00, 0.01, ..., 1.00
OpacityGrid == 0..100

\* int(x * opacity) is computed in double precision.  For x in 0..255 and
\* opacity n/100 it is the exact floor of x*n/100, except for the pairs
\* <<x, n>> below, where the double product falls just under the integer
\* x*n/100 and int() yields one less (100 * 0.29 = 28.999999999999996).
ScaleDefects ==
    { <<50, 58>>, <<90, 70>>, <<100, 29>>, <<100, 57>>, <<100, 58>>,
      <<150, 82>>, <<170, 70>>, <<180, 35>>, <<180, 70>>, <<200, 29>>,
      <<200, 57>>, <<200, 58>> }

\* a scaling that rounds the product to the nearest integer
ScaleAlpha_Round(x, n) == (2 * x * n + 100) \div 200

\* a scaling by the complement of the factor
ScaleAlpha_Inverted(x, n) == (x * (100 - n)) \div 100

\* int(x * opacity) for opacity = n/100
ScaleAlpha(x, n) ==
    ((x * n) \div 100) - (IF <<x, n>> \in ScaleDefects THEN 1 ELSE 0)

OpqInit ==
    \E x \in 0..MaxChannel, n \in OpacityGrid,
       r \in {"add_image_logo", "add_transparent_logo"} :
        /\ r = "add_transparent_logo" => x = MaxChannel
        /\ opq = [pc |-> "call", routine |-> r, x |-> x, opacity |-> n]

\* add_image_logo lines 191-193: a.point(lambda x: int(x * opacity))
PointOpacity ==
    /\ opq.pc = "call"
    /\ opq.routine = "add_image_logo"
    /\ opq' = [opq EXCEPT !.pc = "scaled"] @@ [out |-> ScaleAlpha(opq.x, opq.opacity)]
    /\ UNCHANGED <<crop, lg, place, pc, req, idx, canvas, results, response, files, served,
                   txt, rz, store, handlers, disk, cmd>>

\* add_transparent_logo line 141: alpha_value = int(255 * opacity)
TextAlphaValue ==
    /\ opq.pc = "call"
    /\ opq.routine = "add_transparent_logo"
    /\ opq' = [opq EXCEPT !.pc = "scaled"] @@ [out |-> ScaleAlpha(MaxChannel, opq.opacity)]
    /\ UNCHANGED <<crop, lg, place, pc, req, idx, canvas, results, response, files, served,
                   txt, rz, store, handlers, disk, cmd>>

\* ------------------------------------------------------ logo pixel path
\* Logos are one-row RGBA images here: a sequence of pixels [r, g, b, a].
\* In a one-row image the vertical passes of the blur leave every value
\* unchanged, so the row model is exact for such logos.  The base image is
\* followed only under the pasted logo, where it has one colour.
MaxLogoLen == 2      \* pixels in a logo row

\* threshold: int = 240 and feather: int = 2 of remove_white_background
DefaultThreshold == 240
DefaultFeather == 2

LogoColours == { <<255, 255, 255>>, <<0, 0, 0>>, <<241, 241, 241>>, <<255, 255, 240>> }
LogoAlphas == {0, 128, 255}
BaseColours == { <<40, 40, 80>>, <<0, 0, 0>> }
LogoOpacities == {0, 35, 85, 100}
LogoThresholds == {DefaultThreshold, 254}

Pixel(c, a) == [r |-> c[1], g |-> c[2], b |-> c[3], a |-> a]
LogoPixels == { Pixel(c, a) : c \in LogoColours, a \in LogoAlphas }
LogoImages == UNION { [1..n -> LogoPixels] : n \in 1..MaxLogoLen }

\* a mask that also takes a channel equal to the threshold for white
WhiteMask_NonStrict(p, threshold) ==
    p.r >= threshold /\ p.g >= threshold /\ p.b >= threshold

\* white_mask of line 40
WhiteMask(p, threshold) == p.r > threshold /\ p.g > threshold /\ p.b > threshold

\* np.where with its branches exchanged
MaskAlpha_Exchanged(p, threshold) == IF WhiteMask(p, threshold) THEN p.a ELSE 0

\* np.where(white_mask, 0, a) of line 43, for one pixel
MaskAlpha(p, threshold) == IF WhiteMask(p, threshold) THEN 0 ELSE p.a

\* lines 37-46: the image with the masked alpha
MaskImage(img, threshold) ==
    [i \in 1..Len(img) |-> [img[i] EXCEPT !.a = MaskAlpha(img[i], threshold)]]

AlphaRow(img) == [i \in 1..Len(img) |-> img[i].a]

PutAlpha(img, alpha) == [i \in 1..Len(img) |-> [img[i] EXCEPT !.a = alpha[i]]]

\* the sample at column i of a row whose edge samples extend outwards
Extended(row, i) == row[IF i < 1 THEN 1 ELSE IF i > Len(row) THEN Len(row) ELSE i]

\* one box-blur pass of radius 1.375: the sample and its two neighbours
\* weigh 1, the next two 0.375, over a total of 3.75, rounded to nearest
BoxBlurPass(row) ==
    [i \in 1..Len(row) |->
        (8 * (Extended(row, i - 1) + Extended(row, i) + Extended(row, i + 1))
         + 3 * (Extended(row, i - 2) + Extended(row, i + 2)) + 15) \div 30]

\* ImageFilter.GaussianBlur(radius=2): Pillow runs three box-blur passes
\* whose radius 1.375 it derives from the Gaussian radius 2
GaussianBlur(row) == BoxBlurPass(BoxBlurPass(BoxBlurPass(row)))

\* remove_white_background(image, threshold, feather), feather 0 or 2
RemoveWhiteBackground(img, threshold, feather) ==
    LET result == MaskImage(img, threshold)
    IN  IF feather > 0 THEN PutAlpha(result, GaussianBlur(AlphaRow(result)))
        ELSE result

\* prepare_logo(logo_path, remove_background, threshold = 240)
PrepareLogo(img, remove_background) ==
    IF remove_background THEN RemoveWhiteBackground(img, DefaultThreshold, DefaultFeather)
    ELSE img

\* logo.resize((w, h)) to the logo's own size is a copy
ResizeSameSize(img) == img

\* add_image_logo lines 191-193 on every alpha sample
ApplyOpacity(img, n) ==
    [i \in 1..Len(img) |-> [img[i] EXCEPT !.a = ScaleAlpha(img[i].a, n)]]

\* Pillow's 8-bit blend of a base sample o and a pasted sample i under mask m
Blend8(m, o, i) ==
    LET tmp == m * i + (255 - m) * o + 128
    IN  ((tmp \div 256) + tmp) \div 256

\* base.paste(logo, pos, logo) followed by convert("RGB"), for one pixel of
\* base colour c under the logo pixel p
PastePixel(c, p) ==
    <<Blend8(p.a, c[1], p.r), Blend8(p.a, c[2], p.g), Blend8(p.a, c[3], p.b)>>

\* the base pixels under the logo after the paste
PasteLogo(c, img) == [i \in 1..Len(img) |-> PastePixel(c, img[i])]

\* what generate_asset does with a supplied logo (lines 112-120): open it,
\* convert it to RGBA, resize it, paste it; no watermark preparation
GenerateAssetLogoPixels(c, img) == PasteLogo(c, ResizeSameSize(img))

LogoInit ==
    \E img \in LogoImages, c \in BaseColours :
        \/ lg = [pc |-> "open", path |-> "generate_asset", src |-> img, img |-> img,
                 base |-> c]
        \/ \E n \in LogoOpacities, rb \in BOOLEAN :
              lg = [pc |-> "open", path |-> "add_image_logo", src |-> img, img |-> img,
                    base |-> c, opacity |-> n, remove_background |-> rb]
        \/ \E f \in {0, DefaultFeather}, t \in LogoThresholds :
              /\ c = <<0, 0, 0>>
              /\ lg = [pc |-> "open", path |-> "remove_white_background", src |-> img,
                       img |-> img, base |-> c, threshold |-> t,
                       feather |-> f]

\* generate_asset lines 112-120: the supplied logo is stamped on the canvas
GenerateAssetLogo ==
    /\ lg.pc = "open"
    /\ lg.path = "generate_asset"
    /\ lg' = [lg EXCEPT !.pc = "pasted"]
             @@ [out |-> GenerateAssetLogoPixels(lg.base, lg.img)]
    /\ UNCHANGED <<crop, place, opq, pc, req, idx, canvas, results, response, files, served,
                   txt, rz, store, handlers, disk, cmd>>

\* a direct call of remove_white_background(image, threshold, feather)
RemoveBackground ==
    /\ lg.pc = "open"
    /\ lg.path = "remove_white_background"
    /\ lg' = [lg EXCEPT !.pc = "removed",
                        !.img = RemoveWhiteBackground(lg.img, lg.threshold, lg.feather)]
             @@ [masked |-> MaskImage(lg.img, lg.threshold)]
    /\ UNCHANGED <<crop, place, opq, pc, req, idx, canvas, results, response, files, served,
                   txt, rz, store, handlers, disk, cmd>>

\* add_image_logo lines 181-187: prepare_logo, then the resize
AddImageLogoPrepare ==
    /\ lg.pc = "open"
    /\ lg.path = "add_image_logo"
    /\ lg' = [lg EXCEPT !.pc = "prepared",
                        !.img = ResizeSameSize(PrepareLogo(lg.img, lg.remove_background))]
    /\ UNCHANGED <<crop, place, opq, pc, req, idx, canvas, results, response, files, served,
                   txt, rz, store, handlers, disk, cmd>>

\* add_image_logo lines 189-193: the opacity is applied to the alpha channel
AddImageLogoOpacity ==
    /\ lg.pc = "prepared"
    /\ lg' = [lg EXCEPT !.pc = "scaled", !.img = ApplyOpacity(lg.img, lg.opacity)]
    /\ UNCHANGED <<crop, place, opq, pc, req, idx, canvas, results, response, files, served,
                   txt, rz, store, handlers, disk, cmd>>

\* add_image_logo lines 208-219: the paste through the logo's alpha
AddImageLogoPaste ==
    /\ lg.pc = "scaled"
    /\ lg' = [lg EXCEPT !.pc = "pasted"] @@ [out |-> PasteLogo(lg.base, lg.img)]
    /\ UNCHANGED <<crop, place, opq, pc, req, idx, canvas, results, response, files, served,
                   txt, rz, store, handlers, disk, cmd>>

\* ------------------------------------------------------ add_text_overlay
\* The vertical coordinates y_start and cta_y are Python floats for the
\* anchors "top" and "bottom" (height * 0.15, height * 0.85 - total) and
\* integers otherwise.  They are kept here in hundredths of a pixel, which
\* holds 15% and 85% of every integer height exactly.  (The doubles the code
\* computes give the same int() as the exact values for every height in
\* 0..2000 and every total_text_height in 40..400.)
MaxGlyph == 4        \* measured text heights 0..MaxGlyph (plus TallGlyphs)
TallGlyphs == {57, 70}

Hundredths == 100

\* total_text_height = ... + 40, padding = 40 (lines 181, 191)
TextPadding == 40

\* cta_height += 30, cta_y = y_start + title_height + 30 (lines 179, 213)
CtaGap == 30

\* button_padding = 15 (line 220)
ButtonPadding == 15

\* the chip reaches 5 rows above cta_y and 10 rows below the text (lines 222-223)
ButtonRise == 5
ButtonDrop == 10

TextCanvasWidths == {100, 1200}
TextCanvasHeights == {50, 101, 675, 1080, 1920}
TextHeights == (0..MaxGlyph) \cup TallGlyphs
TitleWidths == {0, 7, 500, 1300}
CtaWidths == {0, 33, 250}

\* "top", "center", "bottom", and a value that is none of them
TextPositions == {"top", "center", "bottom", "middle"}

\* int(x) for x given in hundredths: the integer part, toward zero
IntOfHundredths(x) ==
    IF x >= 0 THEN x \div Hundredths ELSE -((-x) \div Hundredths)

\* lines 175-181
TotalTextHeight(title_height, cta, cta_h) ==
    title_height + (IF cta THEN cta_h + CtaGap ELSE 0) + TextPadding

\* an anchor table whose fallback is "top"
YStart_FallbackTop(position, height, total) ==
    CASE position = "bottom" -> 85 * height - Hundredths * total
      [] position = "center" -> Hundredths * ((height - total) \div 2)
      [] OTHER -> 15 * height

\* a centre anchor that centres the top of the block, not the block
YStart_CentreOfCanvas(position, height, total) ==
    CASE position = "top" -> 15 * height
      [] position = "bottom" -> 85 * height - Hundredths * total
      [] OTHER -> Hundredths * (height \div 2)

\* lines 183-188: y_start, in hundredths
YStart(position, height, total) ==
    CASE position = "top" -> 15 * height
      [] position = "bottom" -> 85 * height - Hundredths * total
      [] OTHER -> Hundredths * ((height - total) \div 2)

\* lines 193-194: the rows of the panel rectangle
PanelTop(y_start) == IntOfHundredths(y_start - Hundredths * TextPadding)

PanelBottom(y_start, total) ==
    IntOfHundredths(y_start + Hundredths * total + Hundredths * TextPadding)

\* lines 201 and 217: the left edge of a text centred on the canvas
CentredX(width, text_width) == (width - text_width) \div 2

\* a chip placed right at the title's last row
CtaY_NoGap(y_start, title_height) == y_start + Hundredths * title_height

\* line 213, in hundredths
CtaY(y_start, title_height) == y_start + Hundredths * (title_height + CtaGap)

\* lines 221-224: (left, top, right, bottom), top and bottom in hundredths
ButtonRect(cta_x, cta_y, cta_w, cta_h) ==
    <<cta_x - ButtonPadding, cta_y - Hundredths * ButtonRise,
      cta_x + cta_w + ButtonPadding, cta_y + Hundredths * (cta_h + ButtonDrop)>>

TextInit ==
    \E w \in TextCanvasWidths, h \in TextCanvasHeights, p \in TextPositions,
       tw \in TitleWidths, th \in TextHeights, c \in BOOLEAN,
       cw \in CtaWidths, ch \in TextHeights :
        /\ ~c => cw = 0 /\ ch = 0
        /\ txt = [pc |-> "call", width |-> w, height |-> h, position |-> p,
                  title_width |-> tw, title_height |-> th,
                  cta |-> c, cta_w |-> cw, cta_h |-> ch]

\* one call of add_text_overlay: the measures are in txt, the layout of the
\* panel, the title and the chip is computed and drawn
AddTextOverlayLayout ==
    /\ txt.pc = "call"
    /\ LET total == TotalTextHeight(txt.title_height, txt.cta, txt.cta_h)
           y_start == YStart(txt.position, txt.height, total)
           cta_x == CentredX(txt.width, txt.cta_w)
           cta_y == CtaY(y_start, txt.title_height)
       IN  txt' = [txt EXCEPT !.pc = "drawn"]
                  @@ [total_text_height |-> total,
                      y_start |-> y_start,
                      bg_y1 |-> PanelTop(y_start),
                      bg_y2 |-> PanelBottom(y_start, total),
                      title_x |-> CentredX(txt.width, txt.title_width)]
                  @@ (IF txt.cta
                      THEN [cta_x |-> cta_x, cta_y |-> cta_y,
                            button_rect |-> ButtonRect(cta_x, cta_y, txt.cta_w, txt.cta_h)]
                      ELSE <<>>)
    /\ UNCHANGED <<crop, lg, place, opq, pc, req, idx, canvas, results, response, files,
                   served, rz, store, handlers, disk, cmd>>

\* ------------------------------------------------------------ resize_logo
MaxResizeSide == 9   \* logo sides 1..MaxResizeSide, requested sizes 0..MaxResizeSide

ResizeInit ==
    \E w \in 1..MaxResizeSide, h \in 1..MaxResizeSide, size \in 0..MaxResizeSide,
       m \in {"RGBA", "RGB"} :
        rz = [pc |-> "call", w |-> w, h |-> h, mode |-> m, size |-> size]

\* one call of ImageProcessor.resize_logo(logo, size), lines 70-73
ResizeLogo ==
    /\ rz.pc = "call"
    /\ \E out \in ResizeLogoOutcomes(rz.w, rz.h, rz.size) :
         IF out = "image"
         THEN rz' = [rz EXCEPT !.pc = "returned"]
                    @@ [out |-> [w |-> ResizedSize(rz.size,
                                                   ResizeLogoHeight(rz.w, rz.h, rz.size))[1],
                                 h |-> ResizedSize(rz.size,
                                                   ResizeLogoHeight(rz.w, rz.h, rz.size))[2],
                                 mode |-> rz.mode]]
         ELSE rz' = [rz EXCEPT !.pc = "raised"] @@ [error |-> out]
    /\ UNCHANGED <<crop, lg, place, opq, pc, req, idx, canvas, results, response, files,
                   served, txt, store, handlers, disk, cmd>>

\* ----------------------------------------------------------- delete_asset
\* A filename is a sequence of characters; a path is a sequence of
\* components from the root of the file system, each a sequence of
\* characters.  The file system maps the paths that exist to "file" or "dir".
MaxNameLen == 4      \* characters in the filename of a delete request

NameChars == {"a", ".", "/", "\\"}

FileNames == UNION { [1..n -> NameChars] : n \in 1..MaxNameLen }

\* OUTPUT_DIR = <backend>/static/generated (line 24)
StaticDir == << <<"static">> >>
OutputDir == << <<"static">>, <<"generated">> >>

\* ".." in filename
HasDotDot(name) == \E i \in 1..(Len(name) - 1) : name[i] = "." /\ name[i + 1] = "."

\* c in filename, for a single character c
HasChar(name, c) == \E i \in 1..Len(name) : name[i] = c

\* a traversal check that forgets the forward slash
InvalidName_NoSlash(name) == HasDotDot(name) \/ HasChar(name, "\\")

\* line 290: ".." in filename or "/" in filename or "\\" in filename
InvalidName(name) == HasDotDot(name) \/ HasChar(name, "/") \/ HasChar(name, "\\")

\* the components of a filename between its forward slashes
RECURSIVE Components(_)
Components(name) ==
    IF name = <<>> THEN << <<>> >>
    ELSE LET rest == Components(Tail(name))
         IN  IF Head(name) = "/" THEN << <<>> >> \o rest
             ELSE << <<Head(name)>> \o Head(rest) >> \o Tail(rest)

\* a path that names nothing
Nowhere == << <<"?">> >>

\* the path reached from the directory cur along the components comps: an
\* empty component and "." stay, ".." goes to the parent, a name goes down;
\* every directory on the way has to exist
RECURSIVE Walk(_, _, _)
Walk(fs, cur, comps) ==
    IF comps = <<>> THEN cur
    ELSE IF cur \notin DOMAIN fs \/ fs[cur] # "dir" THEN Nowhere
    ELSE LET c == Head(comps)
             next == IF c = <<>> \/ c = <<".">> THEN cur
                     ELSE IF c = <<".", ".">>
                          THEN (IF cur = <<>> THEN cur ELSE SubSeq(cur, 1, Len(cur) - 1))
                          ELSE Append(cur, c)
         IN  Walk(fs, next, Tail(comps))

\* line 287: file_path = OUTPUT_DIR / filename, as the system resolves it;
\* a filename that begins with a slash is taken from the root
FilePath(fs, name) ==
    Walk(fs, IF Head(name) = "/" THEN <<>> ELSE OutputDir, Components(name))

\* file_path.unlink(): a file is removed unless the system refuses; a
\* directory is never removed
UnlinkOutcomes(fs, path) ==
    IF fs[path] = "file" THEN {"unlinked", "OSError"} ELSE {"OSError"}

RemoveEntry(fs, path) == [q \in DOMAIN fs \ {path} |-> fs[q]]

\* the directories that are always there, and the entries that may be
BaseTree == [q \in {<<>>, StaticDir, OutputDir} |-> "dir"]

OptionalEntries ==
    { Append(OutputDir, <<"a">>), Append(OutputDir, <<"a", "a">>),
      Append(OutputDir, <<"a", "\\", "a">>), Append(StaticDir, <<"a">>), << <<"a">> >> }

\* the entries that can be a directory
OptionalDirs == { Append(OutputDir, <<"a", "a">>) }

FileSystems ==
    { BaseTree @@ [q \in present |-> IF q \in dirs THEN "dir" ELSE "file"] :
          present \in SUBSET OptionalEntries, dirs \in SUBSET OptionalDirs }

DeleteInit ==
    \E fs \in FileSystems, name \in FileNames :
        store = [pc |-> "request", filename |-> name, before |-> fs, fs |-> fs]

\* one DELETE /generated/{filename} request, lines 282-309
DeleteAsset ==
    /\ store.pc = "request"
    /\ LET file_path == FilePath(store.fs, store.filename)
       IN  IF InvalidName(store.filename)
           THEN store' = [store EXCEPT !.pc = "answered"] @@ [status |-> 400]
           ELSE IF file_path \notin DOMAIN store.fs
           THEN store' = [store EXCEPT !.pc = "answered"] @@ [status |-> 404]
           ELSE \E out \in UnlinkOutcomes(store.fs, file_path) :
                  IF out = "unlinked"
                  THEN store' = [store EXCEPT !.pc = "answered",
                                              !.fs = RemoveEntry(@, file_path)]
                                @@ [status |-> 200]
                  ELSE store' = [store EXCEPT !.pc = "answered"] @@ [status |-> 500]
    /\ UNCHANGED <<crop, lg, place, opq, pc, req, idx, canvas, results, response, files,
                   served, txt, rz, handlers, disk, cmd>>

\* ------------------------------------------------- concurrent /generate
\* Two runs of generate_assets on one event loop.  A run gives up the loop
\* only at its two awaits (image.read() of line 101, logo_file.read() of
\* line 120); everything between two awaits, the whole format loop and the
\* cleanup included, runs without interruption.  The temporary paths carry
\* the timestamp of line 96, which has a resolution of one second.
HandlerIds == {1, 2}

\* the seconds in which a request can arrive
Seconds == {1, 2}

\* /tmp/input_<timestamp>.jpg and /tmp/logo_<timestamp>.png; a per-format
\* output file is written and removed inside the loop, between no two awaits
TmpPath(kind, ts) == <<kind, ts>>
TmpPaths == {TmpPath(k, ts) : k \in {"input", "logo"}, ts \in Seconds}

\* a file that is not there
Absent == 0

\* a request: whether an image is uploaded (else the placeholder is drawn)
\* and whether a logo is enabled and uploaded
ConcRequests == [image : BOOLEAN, logo : BOOLEAN]

\* f.write(content): the file now holds the data of the run that wrote it
WriteFile(d, path, h) == [d EXCEPT ![path] = h]

\* os.remove(path) guarded by os.path.exists(path)
RemoveFile(d, path) == [d EXCEPT ![path] = Absent]

\* lines 184-188: the input file, and the logo file if logo_path is set
Cleanup(d, ts, logo) ==
    LET d1 == RemoveFile(d, TmpPath("input", ts))
    IN  IF logo THEN RemoveFile(d1, TmpPath("logo", ts)) ELSE d1

\* lines 129-206 for a run with timestamp ts on the disk d: generate_asset
\* opens input_path (and logo_path) for every format; a missing file raises
\* and the except branch answers 500 without any cleanup
RunLoop(d, ts, logo) ==
    IF d[TmpPath("input", ts)] = Absent \/ (logo /\ d[TmpPath("logo", ts)] = Absent)
    THEN [disk |-> d,
          response |-> [success |-> FALSE, error |-> "FileNotFoundError"]]
    ELSE [disk |-> Cleanup(d, ts, logo),
          response |-> [success |-> TRUE,
                        source |-> d[TmpPath("input", ts)],
                        logo |-> IF logo THEN d[TmpPath("logo", ts)] ELSE Absent]]

ConcInit ==
    /\ handlers \in [HandlerIds -> {[pc |-> "new", req |-> r] : r \in ConcRequests}]
    /\ disk = [p \in TmpPaths |-> Absent]

\* the seconds the clock can show to a run that starts now
Now == {s \in Seconds : \A h \in HandlerIds : "ts" \in DOMAIN handlers[h] => handlers[h].ts <= s}

\* the run of h from the state d of the disk up to its next await or its
\* response, once its input file is written
AfterInput(h, self, d) ==
    IF self.req.logo
    THEN /\ handlers' = [handlers EXCEPT ![h] = [self EXCEPT !.pc = "await_logo"]]
         /\ disk' = d
    ELSE LET run == RunLoop(d, self.ts, FALSE)
         IN  /\ handlers' = [handlers EXCEPT ![h] =
                                [self EXCEPT !.pc = "responded"] @@ [response |-> run.response]]
             /\ disk' = run.disk

\* lines 91-101: the request arrives, the timestamp is taken; with an upload
\* the run stops at await image.read(), without one it draws the placeholder
\* into input_path and goes on
StartRequest(h) ==
    /\ handlers[h].pc = "new"
    /\ \E ts \in Now :
         LET self == handlers[h] @@ [ts |-> ts]
         IN  IF self.req.image
             THEN /\ handlers' = [handlers EXCEPT ![h] = [self EXCEPT !.pc = "await_image"]]
                  /\ disk' = disk
             ELSE AfterInput(h, self, WriteFile(disk, TmpPath("input", ts), h))
    /\ UNCHANGED <<crop, lg, place, opq, pc, req, idx, canvas, results, response, files,
                   served, txt, rz, store, cmd>>

\* lines 101-120: image.read() is back; the bytes go to input_path
ImageRead(h) ==
    /\ handlers[h].pc = "await_image"
    /\ AfterInput(h, handlers[h], WriteFile(disk, TmpPath("input", handlers[h].ts), h))
    /\ UNCHANGED <<crop, lg, place, opq, pc, req, idx, canvas, results, response, files,
                   served, txt, rz, store, cmd>>

\* lines 120-206: logo_file.read() is back; the bytes go to logo_path, the
\* loop runs, the temporary files are removed, the response is returned
LogoRead(h) ==
    /\ handlers[h].pc = "await_logo"
    /\ LET ts == handlers[h].ts
           run == RunLoop(WriteFile(disk, TmpPath("logo", ts), h), ts, TRUE)
       IN  /\ handlers' = [handlers EXCEPT ![h] =
                              [@ EXCEPT !.pc = "responded"] @@ [response |-> run.response]]
           /\ disk' = run.disk
    /\ UNCHANGED <<crop, lg, place, opq, pc, req, idx, canvas, results, response, files,
                   served, txt, rz, store, cmd>>

\* ---------------------------------------------------------- parse_command
\* A command is the set of the vocabulary's words it contains (the handler
\* only asks whether a word occurs in the lowercased text; the Hebrew words
\* of each list behave as the English ones and are left out).  The client
\* keeps its options and copies the returned parameters into them.
MaxCommands == 3     \* commands a client sends
MaxWords == 2        \* words of the vocabulary in one command

Vocabulary == {"bigger", "larger", "smaller", "reduce", "logo", "text", "please"}

Commands == { c \in SUBSET Vocabulary : Cardinality(c) <= MaxWords }

BiggerWords == {"enlarge", "bigger", "larger"}
SmallerWords == {"smaller", "reduce"}
LogoWords == {"logo"}
FontWords == {"font", "text"}

\* any(word in command for word in words)
HasAny(command, words) == command \cap words # {}

\* current.get("logoSize", 150), current.get("titleFontSize", 90)
LogoSizeDefault == 150
FontSizeDefault == 90

\* min(current_logo_size + 50, 300), max(current_logo_size - 50, 80)
LogoStep == 50
LogoMax == 300
LogoMin == 80

\* min(current_font_size + 10, 120), max(current_font_size - 10, 60)
FontStep == 10
FontMax == 120
FontMin == 60

Min(a, b) == IF a <= b THEN a ELSE b
Max(a, b) == IF a >= b THEN a ELSE b

\* dict.get(key, default)
Get(options, key, default) == IF key \in DOMAIN options THEN options[key] ELSE default

\* an enlargement without the cap
LogoBigger_Uncapped(size) == size + LogoStep

\* line 357
LogoBigger(size) == Min(size + LogoStep, LogoMax)

\* line 371
LogoSmaller(size) == Max(size - LogoStep, LogoMin)

\* lines 363 and 377
FontBigger(size) == Min(size + FontStep, FontMax)
FontSmaller(size) == Max(size - FontStep, FontMin)

\* the params of the response, lines 344-381; every later branch of the
\* handler returns parameters other than the two sizes
ParseParams(command, options) ==
    LET current_logo_size == Get(options, "logoSize", LogoSizeDefault)
        current_font_size == Get(options, "titleFontSize", FontSizeDefault)
    IN  IF HasAny(command, BiggerWords) /\ HasAny(command, LogoWords)
        THEN [logo_size |-> LogoBigger(current_logo_size)]
        ELSE IF HasAny(command, BiggerWords) /\ HasAny(command, FontWords)
        THEN [title_font_size |-> FontBigger(current_font_size)]
        ELSE IF HasAny(command, SmallerWords) /\ HasAny(command, LogoWords)
        THEN [logo_size |-> LogoSmaller(current_logo_size)]
        ELSE IF HasAny(command, SmallerWords) /\ HasAny(command, FontWords)
        THEN [title_font_size |-> FontSmaller(current_font_size)]
        ELSE [other |-> TRUE]

\* the options of a client that has a logo size in 80..300, or none yet
CommandInit ==
    \E o \in {<<>>} \cup {[logoSize |-> n] : n \in LogoMin..LogoMax} :
        cmd = [pc |-> "ready", options |-> o, sent |-> 0, command |-> {},
               params |-> <<>>]

\* one POST /parse-command with the client's current options
ParseCommand ==
    /\ cmd.pc = "ready"
    /\ cmd.sent < MaxCommands
    /\ \E c \in Commands :
         cmd' = [cmd EXCEPT !.pc = "answered", !.sent = @ + 1, !.command = c,
                            !.params = ParseParams(c, cmd.options)]
    /\ UNCHANGED <<crop, lg, place, opq, pc, req, idx, canvas, results, response, files,
                   served, txt, rz, store, handlers, disk>>

\* the client takes the returned sizes as its current ones
ApplyParams ==
    /\ cmd.pc = "answered"
    /\ LET p == cmd.params
           logo == IF "logo_size" \in DOMAIN p THEN [logoSize |-> p.logo_size] ELSE <<>>
           font == IF "title_font_size" \in DOMAIN p
                   THEN [titleFontSize |-> p.title_font_size] ELSE <<>>
       IN  cmd' = [cmd EXCEPT !.pc = "ready", !.options = logo @@ font @@ @]
    /\ UNCHANGED <<crop, lg, place, opq, pc, req, idx, canvas, results, response, files,
                   served, txt, rz, store, handlers, disk>>

\* ------------------------------------------------------- specifications
LogoIdle == [pc |-> "off"]
PlaceIdle == [pc |-> "off"]
OpqIdle == [pc |-> "off"]
TextIdle == [pc |-> "off"]
ResizeIdle == [pc |-> "off"]
StoreIdle == [pc |-> "off"]
HandlersIdle == <<>>
DiskIdle == <<>>
CommandIdle == [pc |-> "off"]

Init ==
    /\ GenInit
    /\ crop = CropIdle /\ lg = LogoIdle /\ place = PlaceIdle /\ opq = OpqIdle
    /\ txt = TextIdle /\ rz = ResizeIdle /\ store = StoreIdle
    /\ handlers = HandlersIdle /\ disk = DiskIdle
    /\ cmd = CommandIdle

Next == GenNext

Spec == Init /\ [][Next]_vars

InitCrop ==
    /\ CropInit
    /\ GenIdle /\ lg = LogoIdle /\ place = PlaceIdle /\ opq = OpqIdle
    /\ txt = TextIdle /\ rz = ResizeIdle /\ store = StoreIdle
    /\ handlers = HandlersIdle /\ disk = DiskIdle
    /\ cmd = CommandIdle

NextCrop == SmartCrop

SpecCrop == InitCrop /\ [][NextCrop]_vars

InitPlace ==
    /\ PlaceInit
    /\ GenIdle /\ crop = CropIdle /\ lg = LogoIdle /\ opq = OpqIdle
    /\ txt = TextIdle /\ rz = ResizeIdle /\ store = StoreIdle
    /\ handlers = HandlersIdle /\ disk = DiskIdle
    /\ cmd = CommandIdle

NextPlace == PlaceProcessorLogo \/ PlaceImageLogo \/ PlaceTextLogo

SpecPlace == InitPlace /\ [][NextPlace]_vars

InitOpacity ==
    /\ OpqInit
    /\ GenIdle /\ crop = CropIdle /\ lg = LogoIdle /\ place = PlaceIdle
    /\ txt = TextIdle /\ rz = ResizeIdle /\ store = StoreIdle
    /\ handlers = HandlersIdle /\ disk = DiskIdle
    /\ cmd = CommandIdle

NextOpacity == PointOpacity \/ TextAlphaValue

SpecOpacity == InitOpacity /\ [][NextOpacity]_vars

InitLogo ==
    /\ LogoInit
    /\ GenIdle /\ crop = CropIdle /\ place = PlaceIdle /\ opq = OpqIdle
    /\ txt = TextIdle /\ rz = ResizeIdle /\ store = StoreIdle
    /\ handlers = HandlersIdle /\ disk = DiskIdle
    /\ cmd = CommandIdle

NextLogo ==
    \/ GenerateAssetLogo
    \/ RemoveBackground
    \/ AddImageLogoPrepare
    \/ AddImageLogoOpacity
    \/ AddImageLogoPaste

SpecLogo == InitLogo /\ [][NextLogo]_vars

OthersIdle ==
    /\ GenIdle
    /\ crop = CropIdle /\ lg = LogoIdle /\ place = PlaceIdle /\ opq = OpqIdle
    /\ cmd = CommandIdle

InitText ==
    /\ TextInit
    /\ OthersIdle
    /\ rz = ResizeIdle /\ store = StoreIdle
    /\ handlers = HandlersIdle /\ disk = DiskIdle

NextText == AddTextOverlayLayout

SpecText == InitText /\ [][NextText]_vars

InitResize ==
    /\ ResizeInit
    /\ OthersIdle
    /\ txt = TextIdle /\ store = StoreIdle
    /\ handlers = HandlersIdle /\ disk = DiskIdle

NextResize == ResizeLogo

SpecResize == InitResize /\ [][NextResize]_vars

InitDelete ==
    /\ DeleteInit
    /\ OthersIdle
    /\ txt = TextIdle /\ rz = ResizeIdle
    /\ handlers = HandlersIdle /\ disk = DiskIdle

NextDelete == DeleteAsset

SpecDelete == InitDelete /\ [][NextDelete]_vars

InitCommand ==
    /\ CommandInit
    /\ GenIdle
    /\ crop = CropIdle /\ lg = LogoIdle /\ place = PlaceIdle /\ opq = OpqIdle
    /\ txt = TextIdle /\ rz = ResizeIdle /\ store = StoreIdle
    /\ handlers = HandlersIdle /\ disk = DiskIdle

NextCommand == ParseCommand \/ ApplyParams

SpecCommand == InitCommand /\ [][NextCommand]_vars

InitConc ==
    /\ ConcInit
    /\ OthersIdle
    /\ txt = TextIdle /\ rz = ResizeIdle /\ store = StoreIdle

NextConc ==
    \/ \E h \in HandlerIds : StartRequest(h)
    \/ \E h \in HandlerIds : ImageRead(h)
    \/ \E h \in HandlerIds : LogoRead(h)

SpecConc == InitConc /\ [][NextConc]_vars

\* ------------------------------------------------------------------ claims

Positive(c) == c.w > 0 /\ c.h > 0 /\ c.tw > 0 /\ c.th > 0

\* C1: for every source of positive width and height and every target with
\* both values positive, smart_crop returns (it does not raise) and the image
\* it returns has exactly the size (targetWidth, targetHeight).
C1_CropExactSize ==
    /\ (crop.pc = "raised" => ~Positive(crop))
    /\ (crop.pc = "returned" /\ Positive(crop)
            => crop.out.w = crop.tw /\ crop.out.h = crop.th)

\* C1 witness: a returned crop whose source aspect differs from the target's
\* and whose crop box is not of the target size (the resize did the work)
C1_Witness ==
    /\ crop.pc = "returned"
    /\ Positive(crop)
    /\ crop.w * crop.th # crop.h * crop.tw
    /\ <<BoxWidth(crop.box), BoxHeight(crop.box)>> # <<crop.tw, crop.th>>
    /\ BoxWidth(crop.box) > 0 /\ BoxHeight(crop.box) > 0

InGenerateAsset == pc \in {"logo", "text", "save", "encode"}

\* C2: in generate_asset, whatever the logo and the title/CTA are, the canvas
\* after the crop and after each later stage has the format's size and mode
\* RGB; every asset decodes to the requested (width, height), and the width
\* and height reported for it are the catalog dimensions of its label.
C2_StagesKeepSize ==
    /\ InGenerateAsset =>
          /\ canvas.w = Dimensions(Label)[1]
          /\ canvas.h = Dimensions(Label)[2]
          /\ canvas.mode = "RGB"
    /\ \A i \in 1..Len(results) :
          /\ results[i].decoded = <<results[i].width, results[i].height>>
          /\ results[i].mode = "RGB"
          /\ results[i].format = "16:9" => results[i].decoded = <<1200, 675>>
          /\ results[i].format = "1:1" => results[i].decoded = <<1080, 1080>>
          /\ results[i].format = "9:16" => results[i].decoded = <<1080, 1920>>
          /\ results[i].format = "4:5" => results[i].decoded = <<1080, 1350>>

\* C2 witness: an asset returned by a request that had a logo composited and
\* a text overlay drawn
C2_Witness ==
    /\ pc = "responded"
    /\ response.success
    /\ Len(response.assets) > 0
    /\ LogoPath(req) = "logo"
    /\ req.title /\ ~req.cta

FormatsOf(assets) == [i \in 1..Len(assets) |-> assets[i].format]

InCatalog(label) == label \in {"16:9", "1:1", "9:16", "4:5"}

\* C3: a generate request that succeeds returns exactly the requested labels
\* that belong to the catalog {16:9, 1:1, 9:16, 4:5}, one asset per such
\* label in request order; the other labels are skipped, and count is the
\* number of assets returned.
C3_CatalogFilter ==
    (pc = "responded" /\ response.success) =>
        /\ FormatsOf(response.assets) = SelectSeq(req.formats, InCatalog)
        /\ response.count = Len(response.assets)
        /\ response.status = 200

\* C3 witness: a successful response that skipped a label and returned one
C3_Witness ==
    /\ pc = "responded"
    /\ response.success
    /\ Len(req.formats) = 2
    /\ req.formats[1] = "bogus"
    /\ response.count = 1

\* C4 (as claimed): a failure of one format leaves the other formats'
\* assets in the response; the request fails as a whole only when no
\* requested format produced an asset.
C4_FailureIsolation ==
    (pc = "responded" /\ ~response.success) => Len(results) = 0

\* C5: a generate request that fails as a whole answers with the structured
\* failure (status 500, success false, an error message, no assets); every
\* exception is answered so, and the handler then returns to idle, where the
\* next request is accepted.
C5_StructuredFailure ==
    /\ (pc = "responded" /\ ~response.success) =>
          /\ response.status = 500
          /\ "error" \in DOMAIN response
          /\ "assets" \notin DOMAIN response
    /\ (pc = "responded" => (response.status = 500 <=> ~response.success))
    /\ (StageErrors # {} => ENABLED Fail)
    /\ (pc = "responded" => ENABLED Return)
    /\ (pc = "idle" /\ served < MaxRequests => ENABLED Receive)

\* C5 witness: a request answered successfully after an earlier request, whose
\* input file is still on disk, had failed
C5_Witness ==
    /\ pc = "responded"
    /\ response.success
    /\ served = 1
    /\ <<"input", 1>> \in files

\* the pasted rectangle lies inside the canvas inset by the padding
InsideInset(p) ==
    /\ p.pos[1] >= Padding
    /\ p.pos[2] >= Padding
    /\ p.pos[1] + p.lw <= p.w - Padding
    /\ p.pos[2] + p.lh <= p.h - Padding

\* C8 (as claimed): for each of the four corners and any logo whose width and
\* height are smaller than the canvas width and height minus the 40px
\* padding, the pasted rectangle lies inside the canvas inset by 40px on
\* every side.
C8_InsetAsClaimed ==
    (/\ place.pc = "pasted"
     /\ place.position \in Corners
     /\ place.lw < place.w - 40
     /\ place.lh < place.h - 40) => InsideInset(place)

\* C8 (amended): for each of the four corners and any logo whose width and
\* height are at most the canvas width and height minus the padding of both
\* sides (80px), the pasted rectangle lies inside the canvas inset by 40px
\* on every side.
C8_InsetBothSides ==
    (/\ place.pc = "pasted"
     /\ place.position \in Corners
     /\ place.lw <= place.w - 80
     /\ place.lh <= place.h - 80) => InsideInset(place)

\* C8 witness: a logo that just fits the inset canvas, pasted bottom-right
C8_Witness ==
    /\ place.pc = "pasted"
    /\ place.position = "bottom-right"
    /\ place.lw = place.w - 80
    /\ place.lh < place.h - 80
    /\ InsideInset(place)

\* C9: opacity scaling is monotonic: factor 0.0 gives alpha 0, factor 1.0
\* gives the input alpha, and a factor f1 <= f2 never gives a greater alpha
\* than f2 for the same sample.
C9_OpacityMonotonic ==
    opq.pc = "scaled" =>
        LET x == IF opq.routine = "add_transparent_logo" THEN MaxChannel ELSE opq.x
        IN  /\ opq.opacity = 0 => opq.out = 0
            /\ opq.opacity = 100 => opq.out = x
            /\ \A n2 \in OpacityGrid : opq.opacity <= n2 => opq.out <= ScaleAlpha(x, n2)
            /\ \A n1 \in OpacityGrid : n1 <= opq.opacity => ScaleAlpha(x, n1) <= opq.out

\* C9 witness: a sample scaled by a factor strictly between 0 and 1 to a
\* value strictly between 0 and the sample
C9_Witness ==
    /\ opq.pc = "scaled"
    /\ opq.routine = "add_image_logo"
    /\ opq.opacity = 85
    /\ 0 < opq.out /\ opq.out < opq.x

\* C10 (as claimed): the scaled alpha is the product of the sample and the
\* factor rounded to the nearest integer in 0..255.
C10_RoundsToNearest ==
    opq.pc = "scaled" =>
        /\ opq.out \in 0..255
        /\ 100 * opq.out - opq.x * opq.opacity <= 50
        /\ opq.x * opq.opacity - 100 * opq.out <= 50

\* C10 (amended): the scaled alpha is the product of the sample and the
\* factor truncated toward zero: it is in 0..255, never above the product
\* and at most one below it.
C10_Truncates ==
    opq.pc = "scaled" =>
        /\ opq.out \in 0..255
        /\ 100 * opq.out <= opq.x * opq.opacity
        /\ opq.x * opq.opacity - 100 * opq.out <= 100
        /\ (opq.x * opq.opacity - 100 * opq.out = 100
               => <<opq.x, opq.opacity>> \in ScaleDefects)

\* C10 witness: 255 * 0.85 = 216.75 is scaled to 216, not to 217
C10_Witness ==
    /\ opq.pc = "scaled"
    /\ opq.x = 255
    /\ opq.opacity = 85
    /\ opq.out = 216

IsWhite(p) == <<p.r, p.g, p.b>> = <<255, 255, 255>>
IsBlack(p) == <<p.r, p.g, p.b>> = <<0, 0, 0>>

DefaultRemoval ==
    /\ lg.pc = "removed"
    /\ lg.threshold = 240
    /\ lg.feather = 2

\* C6 (as claimed): in the image remove_white_background returns with
\* threshold 240 and feather 2, every pixel that was (255,255,255) has alpha
\* 0 and every pixel that was (0,0,0) has its input alpha, whatever its
\* neighbours are.
C6_WhiteGoneBlackKept ==
    DefaultRemoval =>
        \A i \in 1..Len(lg.src) :
            /\ IsWhite(lg.src[i]) => lg.img[i].a = 0
            /\ IsBlack(lg.src[i]) => lg.img[i].a = lg.src[i].a

UniformMask(img) == \A i, j \in 1..Len(img) : img[i].a = img[j].a

\* C6 (amended): with threshold 240 and feather 2, the mask computed before
\* the feather gives every (255,255,255) pixel alpha 0 and every (0,0,0)
\* pixel its input alpha; the returned image is that alpha blurred, and the
\* two values survive in it where the masked alpha is the same over the
\* blur's reach (here the whole row).
C6_MaskThenFeather ==
    DefaultRemoval =>
        /\ \A i \in 1..Len(lg.src) :
              /\ IsWhite(lg.src[i]) => lg.masked[i].a = 0
              /\ IsBlack(lg.src[i]) => lg.masked[i].a = lg.src[i].a
        /\ UniformMask(lg.masked) =>
              \A i \in 1..Len(lg.src) :
                  /\ IsWhite(lg.src[i]) => lg.img[i].a = 0
                  /\ IsBlack(lg.src[i]) => lg.img[i].a = lg.src[i].a

\* C6 witness: an opaque white pixel beside a transparent black one, both
\* returned with alpha 0
C6_Witness ==
    /\ DefaultRemoval
    /\ Len(lg.src) >= 2
    /\ IsWhite(lg.src[1]) /\ lg.src[1].a = 255
    /\ IsBlack(lg.src[2]) /\ lg.src[2].a = 0
    /\ lg.img[1].a = 0 /\ lg.img[2].a = 0

\* C7 (as claimed): in generate_asset every near-white pixel of a supplied
\* logo (R, G and B above 240) is transparent when the logo is pasted: the
\* base pixel under it keeps its colour.
C7_NearWhiteTransparent ==
    (lg.pc = "pasted" /\ lg.path = "generate_asset") =>
        \A i \in 1..Len(lg.src) :
            (lg.src[i].r > 240 /\ lg.src[i].g > 240 /\ lg.src[i].b > 240)
                => lg.out[i] = lg.base

TextTotal == txt.title_height + (IF txt.cta THEN txt.cta_h + 30 ELSE 0) + 40

\* C11: add_text_overlay resolves y_start from the anchor: "top" gives 15% of
\* the canvas height, "bottom" gives 85% of the canvas height minus
\* total_text_height, "center" gives (height - total_text_height) / 2 (the
\* integer quotient), and every other anchor value gives what "center" gives.
\* (y_start is held in hundredths of a pixel.)
C11_AnchorResolution ==
    txt.pc = "drawn" =>
        /\ txt.total_text_height = TextTotal
        /\ txt.position = "top" => txt.y_start = 15 * txt.height
        /\ txt.position = "bottom"
              => txt.y_start = 85 * txt.height - 100 * TextTotal
        /\ txt.position \notin {"top", "bottom"}
              => /\ txt.y_start % 100 = 0
                 /\ 2 * (txt.y_start \div 100) \in
                        {txt.height - TextTotal, txt.height - TextTotal - 1}

\* C11 witness: an anchor that is none of the three, resolved as the centre
\* of a canvas whose free height is odd
C11_Witness ==
    /\ txt.pc = "drawn"
    /\ txt.position = "middle"
    /\ txt.height = 675
    /\ txt.cta
    /\ txt.total_text_height = 78
    /\ txt.y_start = 29800

\* C12: for the anchor "center", whatever the canvas height and the
\* total_text_height are, y_start is within one pixel of
\* (height - total_text_height) / 2, the panel is
\* [y_start - 40, y_start + total_text_height + 40], and its top margin and
\* its bottom margin to the canvas edges differ by at most one pixel.
C12_CentredWithinOnePixel ==
    (txt.pc = "drawn" /\ txt.position = "center") =>
        LET y == txt.y_start \div 100
            top == txt.bg_y1
            bottom == txt.height - txt.bg_y2
        IN  /\ txt.y_start % 100 = 0
            /\ 2 * y - (txt.height - TextTotal) \in -2..2
            /\ txt.bg_y1 = y - 40
            /\ txt.bg_y2 = y + TextTotal + 40
            /\ top - bottom \in -1..1

\* C12 witness: a centred panel taller than the canvas whose two (negative)
\* margins differ by one pixel
C12_Witness ==
    /\ txt.pc = "drawn"
    /\ txt.position = "center"
    /\ txt.height = 50
    /\ txt.total_text_height = 97
    /\ txt.bg_y1 = -64
    /\ txt.height - txt.bg_y2 = -63

\* the layers that are a watermark: a supplied or default logo image, or the
\* brand text
WatermarkLayers == {"logo", "default_logo", "text_watermark"}

Stamped(layers) == \E i \in 1..Len(layers) : layers[i] \in WatermarkLayers

\* C13 (as claimed): when a generate run has the logo enabled and no logo
\* bytes are supplied, the run does not fail for the missing logo and every
\* asset it builds carries a watermark (the default logo image, or the text
\* watermark).
C13_MissingLogoStamped ==
    (pc # "idle" /\ req.logo_enabled /\ req.logo_file.kind = "none") =>
        /\ pc = "logo" => LogoStageOutcomes = {"image"}
        /\ \A i \in 1..Len(results) : Stamped(results[i].layers)

\* C14 (as claimed): when two generate requests run concurrently, interleaved
\* at the handler's awaits, neither reads, overwrites or deletes the other's
\* working data: a file written by a run holds that run's data until the run
\* removes it, no run fails for a file the other removed, and the assets of
\* a run are made of its own image and its own logo.
C14_RunsIsolated ==
    \A h \in HandlerIds :
        /\ handlers[h].pc = "await_logo" => disk[TmpPath("input", handlers[h].ts)] = h
        /\ handlers[h].pc = "responded" =>
              /\ handlers[h].response.success
              /\ handlers[h].response.source = h
              /\ handlers[h].response.logo \in {Absent, h}

\* C15 (as claimed): smart_crop called with a source image or a target that
\* has zero width or zero height ends in an error; it returns no image.
C15_ZeroAreaRaises ==
    (crop.pc \in {"returned", "raised"}
        /\ (crop.w = 0 \/ crop.h = 0 \/ crop.tw = 0 \/ crop.th = 0))
            => crop.pc = "raised"

\* C16 (as claimed): when the source aspect ratio equals the target aspect
\* ratio (w * th = h * tw), the crop box smart_crop computes is the whole
\* source (0, 0, w, h).
C16_EqualAspectWholeBox ==
    (crop.pc = "returned" /\ crop.w * crop.th = crop.h * crop.tw)
        => crop.box = <<0, 0, crop.w, crop.h>>

\* C17: for every corner value that is not one of top-left, top-right,
\* bottom-left, bottom-right, each placement routine (ImageProcessor.add_logo,
\* add_image_logo, add_transparent_logo) places the logo where it places it
\* for top-right: logo width plus 40 from the right edge, 40 from the top.
C17_UnknownCornerTopRight ==
    (/\ place.pc = "pasted"
     /\ place.position \notin {"top-left", "top-right", "bottom-left", "bottom-right"})
        => place.pos = <<place.w - place.lw - 40, 40>>

\* C17 witness: the text watermark placed for the corner value "center"
C17_Witness ==
    /\ place.pc = "pasted"
    /\ place.routine = "add_transparent_logo"
    /\ place.position = "center"
    /\ place.w = 100 /\ place.lw = 24
    /\ place.pos = <<36, 40>>

\* C18 (as claimed): for every logo of positive width and height and every
\* requested size, resize_logo returns an image in the logo's own mode whose
\* width and height are each at most the requested size.
C18_FitsRequestedSize ==
    /\ rz.pc # "raised"
    /\ rz.pc = "returned" =>
          /\ rz.out.mode = rz.mode
          /\ rz.out.w <= rz.size
          /\ rz.out.h <= rz.size

\* C18 (amended): the requested size is the width of the result.  When
\* resize_logo returns, the image has the logo's own mode, its width is the
\* requested size and its height is the size scaled by the logo's height
\* over its width, truncated (at most one less than the exact floor), so the
\* height is at most the size when the logo is not taller than wide.  It
\* raises exactly when the size or the scaled height is below 1.
C18_WidthIsSize ==
    /\ rz.pc = "returned" =>
          /\ rz.out.mode = rz.mode
          /\ rz.out.w = rz.size
          /\ rz.out.h >= 1
          /\ rz.out.h * rz.w <= rz.size * rz.h
          /\ rz.size * rz.h < (rz.out.h + 2) * rz.w
          /\ rz.h <= rz.w => rz.out.h <= rz.size
    /\ rz.pc = "raised" => (rz.size < 1 \/ rz.size * rz.h < rz.w)
    /\ rz.pc = "returned" => (rz.size >= 1 /\ rz.size * rz.h >= rz.w)

\* C18 witness: a logo twice as tall as wide comes back taller than the
\* requested size
C18_Witness ==
    /\ rz.pc = "returned"
    /\ rz.mode = "RGBA"
    /\ rz.w = 1 /\ rz.h = 2 /\ rz.size = 3
    /\ rz.out.w = 3 /\ rz.out.h = 6

\* the entry of the requested name directly inside the output directory
NamedEntry == << <<"static">>, <<"generated">>, store.filename >>

Traversal(name) ==
    \/ \E i \in 1..Len(name) : name[i] \in {"/", "\\"}
    \/ \E i \in 1..(Len(name) - 1) : <<name[i], name[i + 1]>> = <<".", ".">>

\* C19: a delete_asset request whose filename contains "..", "/" or "\" is
\* answered 400 and deletes nothing; a request for a name with no existing
\* file is answered 404 and changes nothing; an accepted request removes
\* only the file of that name directly inside the output directory.
C19_DeleteOnlyNamedFile ==
    store.pc = "answered" =>
        /\ Traversal(store.filename) => store.status = 400
        /\ (~Traversal(store.filename) /\ store.filename # <<".">>
                /\ NamedEntry \notin DOMAIN store.before) => store.status = 404
        /\ store.status # 200 => store.fs = store.before
        /\ store.status = 200 =>
              /\ NamedEntry \in DOMAIN store.before
              /\ store.before[NamedEntry] = "file"
              /\ DOMAIN store.fs = DOMAIN store.before \ {NamedEntry}
              /\ \A q \in DOMAIN store.fs : store.fs[q] = store.before[q]

\* C19 witness: the file "a" of the output directory is deleted while a file
\* of the same name in the parent directory stays
C19_Witness ==
    /\ store.pc = "answered"
    /\ store.status = 200
    /\ store.filename = <<"a">>
    /\ << <<"static">>, <<"a">> >> \in DOMAIN store.fs
    /\ << <<"static">>, <<"generated">>, <<"a">> >> \notin DOMAIN store.fs

\* what the canvas of the format in hand shows once the stages up to the
\* logo stage (the text stage) are done
AfterLogo == <<"crop">> \o (IF LogoPath(req) = "logo" THEN <<"logo">> ELSE <<>>)
AfterText == AfterLogo \o (IF req.title \/ req.cta THEN <<"text">> ELSE <<>>)

\* the layers of an image lie in the order crop, logo, text
InStageOrder(layers) ==
    layers \in { <<"crop">>, <<"crop", "logo">>, <<"crop", "text">>,
                 <<"crop", "logo", "text">> }

StagesDone ==
    /\ pc = "logo" => canvas.layers = <<"crop">>
    /\ pc = "text" => canvas.layers = AfterLogo
    /\ pc \in {"save", "encode"} => canvas.layers = AfterText
    /\ \A i \in 1..Len(results) : InStageOrder(results[i].layers)

StageStep ==
    /\ pc' = "logo" => pc = "crop"
    /\ pc' = "text" => pc = "logo"
    /\ pc' = "save" => pc = "text"
    /\ pc' = "encode" => pc = "save"
    /\ pc = "crop" => pc' \in {"crop", "logo", "responded"}
    /\ pc = "logo" => pc' \in {"logo", "text", "responded"}
    /\ pc = "text" => pc' \in {"text", "save"}
    /\ pc = "save" => pc' \in {"save", "encode", "responded"}

\* C20: within one format's run the stages happen in a fixed order: the logo
\* stage starts only when the crop is done, the text stage only when the
\* logo stage is done, the encoding only when the text stage is done, and no
\* stage is gone back to; so on the canvas and on every asset the logo lies
\* over the cropped image and the text panel over the logo.
C20_StageOrder == [](StagesDone) /\ [][StageStep]_vars

\* C20 witness: an asset encoded with a logo and a text panel on it
C20_Witness ==
    /\ pc = "encode"
    /\ canvas.layers = <<"crop", "logo", "text">>
    /\ req.title /\ req.cta

\* C21: for every source and target with positive dimensions, the crop box
\* of smart_crop lies within the source, spans the whole source along one
\* axis and is centred along the other, its two margins there differing by
\* at most one pixel; the height-limited branch (full width, rows cut) is
\* taken exactly when the target aspect is strictly greater than the source
\* aspect.
C21_CropBoxCentred ==
    (crop.pc = "returned" /\ Positive(crop)) =>
        LET left == crop.box[1]
            upper == crop.box[2]
            right == crop.box[3]
            lower == crop.box[4]
        IN  /\ 0 <= left /\ left <= right /\ right <= crop.w
            /\ 0 <= upper /\ upper <= lower /\ lower <= crop.h
            /\ crop.branch = "height-limited" <=> crop.tw * crop.h > crop.w * crop.th
            /\ crop.branch = "height-limited" =>
                  /\ left = 0 /\ right = crop.w
                  /\ (crop.h - lower) - upper \in {0, 1}
            /\ crop.branch # "height-limited" =>
                  /\ upper = 0 /\ lower = crop.h
                  /\ (crop.w - right) - left \in {0, 1}

\* C21 witness: a 4x5 source cropped for a 2:1 target keeps rows 1..2, with
\* one row above the box and two below
C21_Witness ==
    /\ crop.pc = "returned"
    /\ crop.w = 4 /\ crop.h = 5 /\ crop.tw = 2 /\ crop.th = 1
    /\ crop.branch = "height-limited"
    /\ crop.box = <<0, 1, 4, 3>>

\* C22: with feather = 0, remove_white_background is a hard binary mask: a
\* pixel whose R, G and B are all strictly greater than the threshold comes
\* back with alpha 0 whatever its alpha was, every other pixel (one with a
\* channel equal to the threshold included) comes back with its input alpha,
\* and no colour changes.
C22_HardMask ==
    (lg.pc = "removed" /\ lg.feather = 0) =>
        /\ Len(lg.img) = Len(lg.src)
        /\ \A i \in 1..Len(lg.src) :
              LET p == lg.src[i]
                  q == lg.img[i]
                  background == /\ p.r > lg.threshold
                                /\ p.g > lg.threshold
                                /\ p.b > lg.threshold
              IN  /\ <<q.r, q.g, q.b>> = <<p.r, p.g, p.b>>
                  /\ background => q.a = 0
                  /\ ~background => q.a = p.a

\* C22 witness: at threshold 240 an opaque white pixel is cleared while its
\* neighbour (255, 255, 240), half transparent, keeps its alpha
C22_Witness ==
    /\ lg.pc = "removed"
    /\ lg.feather = 0
    /\ lg.threshold = 240
    /\ Len(lg.src) = 2
    /\ lg.src[1] = [r |-> 255, g |-> 255, b |-> 255, a |-> 255]
    /\ lg.src[2] = [r |-> 255, g |-> 255, b |-> 240, a |-> 128]
    /\ lg.img[1].a = 0
    /\ lg.img[2].a = 128

\* C23 (as claimed): for every canvas width and every measured title width
\* and CTA width, the title and the CTA chip (the CTA text and 15px on each
\* side) lie within the canvas horizontally: left edge at or after column 0,
\* right edge at or before the canvas width.
C23_TextFitsWidth ==
    txt.pc = "drawn" =>
        /\ txt.title_x >= 0
        /\ txt.title_x + txt.title_width <= txt.width
        /\ txt.cta => /\ txt.button_rect[1] >= 0
                      /\ txt.button_rect[3] <= txt.width

\* C24: for every anchor and all measured heights, with total_text_height =
\* title_height + 40 + (cta_height + 30 with a CTA), the title's rows
\* [y_start, y_start + title_height] and the chip's rows
\* [cta_y - 5, cta_y + cta_height + 10], cta_y = y_start + title_height + 30,
\* lie inside the panel's rows [y_start - 40, y_start + total + 40] (and
\* inside the rows bg_y1..bg_y2 actually filled), and the chip starts below
\* the title's last row.  (Rows are in hundredths of a pixel.)
C24_TextInsidePanel ==
    txt.pc = "drawn" =>
        LET y == txt.y_start
            panelTop == y - 100 * 40
            panelBottom == y + 100 * (TextTotal + 40)
            titleBottom == y + 100 * txt.title_height
        IN  /\ panelTop <= y /\ titleBottom <= panelBottom
            /\ 100 * txt.bg_y1 <= y /\ titleBottom <= 100 * txt.bg_y2
            /\ txt.cta =>
                  LET chipTop == txt.button_rect[2]
                      chipBottom == txt.button_rect[4]
                  IN  /\ txt.cta_y = y + 100 * (txt.title_height + 30)
                      /\ chipTop = txt.cta_y - 100 * 5
                      /\ chipBottom = txt.cta_y + 100 * (txt.cta_h + 10)
                      /\ panelTop <= chipTop /\ chipBottom <= panelBottom
                      /\ 100 * txt.bg_y1 <= chipTop /\ chipBottom <= 100 * txt.bg_y2
                      /\ chipTop > titleBottom

\* C24 witness: a title and a CTA anchored at the bottom of a canvas 101 rows
\* high: y_start is 7.85, the panel starts above the canvas at row -32
C24_Witness ==
    /\ txt.pc = "drawn"
    /\ txt.position = "bottom"
    /\ txt.height = 101
    /\ txt.cta
    /\ txt.title_height = 4 /\ txt.cta_h = 4
    /\ txt.y_start = 785
    /\ txt.bg_y1 = -32
    /\ txt.button_rect[2] = 3685

\* the temporary files the request being served has created
OwnTmpFiles == { f \in files : f[2] = served + 1 }

\* C25 (as claimed): when a generate request has returned its response, with
\* success or with an error, no temporary file it created (the input image,
\* the logo, a per-format output) remains on disk.
C25_NoTempFilesLeft ==
    pc = "responded" => OwnTmpFiles = {}

\* a command that asks for a bigger (a smaller) logo and for nothing else
AsksBiggerLogo(c) ==
    /\ "logo" \in c
    /\ c \cap {"bigger", "larger", "enlarge"} # {}
    /\ c \cap {"smaller", "reduce"} = {}

AsksSmallerLogo(c) ==
    /\ "logo" \in c
    /\ c \cap {"smaller", "reduce"} # {}
    /\ c \cap {"bigger", "larger", "enlarge"} = {}

CurrentLogoSize == IF "logoSize" \in DOMAIN cmd.options THEN cmd.options.logoSize ELSE 150

\* C26: for any sequence of "bigger logo" and "smaller logo" commands, each
\* sent with the logo_size the previous one returned and the first with a
\* size in 80..300, every returned logo_size is in 80..300, a "bigger"
\* command never returns less than the current size and a "smaller" command
\* never returns more.
C26_LogoSizeBounded ==
    /\ CurrentLogoSize \in 80..300
    /\ cmd.pc = "answered" =>
          /\ AsksBiggerLogo(cmd.command) =>
                /\ "logo_size" \in DOMAIN cmd.params
                /\ cmd.params.logo_size >= CurrentLogoSize
          /\ AsksSmallerLogo(cmd.command) =>
                /\ "logo_size" \in DOMAIN cmd.params
                /\ cmd.params.logo_size <= CurrentLogoSize
          /\ "logo_size" \in DOMAIN cmd.params => cmd.params.logo_size \in 80..300

\* C26 witness: the third command of a client, "bigger logo" at 280, is
\* answered with the cap 300
C26_Witness ==
    /\ cmd.pc = "answered"
    /\ cmd.sent = 3
    /\ cmd.command = {"bigger", "logo"}
    /\ CurrentLogoSize = 280
    /\ cmd.params.logo_size = 300

====
